---- MODULE Spec2Model ----
(***************************************************************************)
(* Model of iot1::protocol::PldmTransport (pldm_transport.h / .cpp): the   *)
(* pending-request table, the receive loop, the timeout cleanup loop,      *)
(* sendAsync and close(), with the promise/future pair of every request.   *)
(*                                                                         *)
(* Threads: one caller thread per exchange (a sendAsync call), the rx      *)
(* thread, the timeout thread, and the thread that calls initialize() and  *)
(* close().  A lock_guard scope on pending_lock is one step: its body      *)
(* never blocks and touches nothing but the table and the promises in it,  *)
(* so the scopes are serialised by the mutex and each is atomic.           *)
(* Callers use the transport once initialize() has returned.               *)
(*                                                                         *)
(* Time is in milliseconds and starts when initialize() returns.  Only the *)
(* timeout thread compares the clock with anything, so the clock advances  *)
(* only while that thread sleeps.  Computation takes no time: the clock    *)
(* stands still while the timeout thread is awake and while a caller is    *)
(* between computing its deadline and registering the request.             *)
(* sleep_for(100 ms) sleeps exactly 100 ms.  Link send and receive may     *)
(* take any time.                                                          *)
(***************************************************************************)
EXTENDS Integers, Sequences, FiniteSets, TLC

\* ---- bounds -------------------------------------------------------------
MaxEx == 2
MaxTag == 1
MaxTime == 200
MaxSpurious == 1
MaxClose == 2
MaxAlloc == 258
MaxBurst == 33
MaxThreads == 2
MaxOvertake == 1

\* ---- program constants --------------------------------------------------
SweepIntervalMs == 100
TagModulus == 32
TagShift == 4
ResponseBit == 128
CounterModulus == 256

TickMs == SweepIntervalMs \div 2

Exchanges == 1..MaxEx
BurstCallers == 1..MaxBurst
Tags == 0..MaxTag
Timeouts == {TickMs}

\* ---- wire format ---------------------------------------------------------
\* (mutant) the shift without the 5-bit mask
InstanceIdOf_NoMask(byte) == byte \div TagShift

\* byte 0 of a PLDM header: rq/response in bit 7, instance id in bits 2-6
InstanceIdOf(byte) == (byte \div TagShift) % TagModulus
RequestHeader(t) == t * TagShift
ResponseHeader(t) == ResponseBit + t * TagShift

\* a request as the callers build it: header byte and command byte
Requests == {<<RequestHeader(t), 1>> : t \in Tags}

\* the frame the remote endpoint returns for exchange e: it echoes the
\* instance id of the request and carries a payload byte of its own
ReplyFrame(e, req) == <<ResponseHeader(InstanceIdOf(req[1])), e>>

\* frames the link delivers that answer no request: a one-byte frame and
\* frames with some instance id (reserved low bits set)
SpuriousFrames == {<<ResponseHeader(0)>>} \cup {<<ResponseHeader(t) + 1, 0>> : t \in Tags}

\* ---- promise / future shared state -------------------------------------
NoValue == <<>>
Unset == [kind |-> "none", value |-> NoValue, sets |-> 0]

\* set_value / set_exception: the first one makes the state ready, a later
\* one throws future_error (caught at every call site) and changes nothing
SetOutcome(h, kind, value) == IF h.kind = "none" THEN [kind |-> kind, value |-> value, sets |-> h.sets + 1] ELSE [h EXCEPT !.sets = h.sets + 1]

\* destruction or move-assignment of a promise whose state is not ready
\* stores broken_promise; a ready state is left alone
Abandon(h) == IF h.kind = "none" THEN [kind |-> "BrokenPromise", value |-> NoValue, sets |-> h.sets] ELSE h

\* ---- pending table (std::map<uint8_t, PendingRequest>) ------------------
PendingRequest(e, deadline) == [promise |-> e, timeout |-> deadline]
MapInsert(m, k, v) == [t \in (DOMAIN m) \cup {k} |-> IF t = k THEN v ELSE m[t]]
MapErase(m, ks) == [t \in (DOMAIN m) \ ks |-> m[t]]
EmptyMap == [t \in {} |-> PendingRequest(0, 0)]

VARIABLES running, mctp, initPc, rx_thread, timeout_thread, pending, next_instance_id, handle, ex, link, spurious, rxPc, rxMsg, swPc, wake, sweepNow, clPc, closes, now, allocated, recent, regSeq, pending_lock, cntPc, retval, shortSeen

\* history of the calls: the number of allocateInstanceId calls made, the ids
\* the last TagModulus of them returned, the callers in the order in which
\* sendAsync registered their requests (kept where instance ids are allocated)
histVars == <<allocated, recent, regSeq>>
\* the mutex pending_lock (its owner) and the position of a thread that
\* calls getPendingRequestCount
lockVars == <<pending_lock, cntPc>>
\* what the transport hands back besides the futures: the return of each
\* sendAndWaitResponse call with its output buffer, and of the "Received
\* message too short" lines the receive loop has logged, the tags of the
\* entries that were pending under the tag the frame's first byte encodes
outVars == <<retval, shortSeen>>
transportVars == <<running, mctp, initPc, rx_thread, timeout_thread, next_instance_id, histVars, lockVars, outVars>>
callerVars == <<handle, ex>>
linkVars == <<link, spurious>>
rxVars == <<rxPc, rxMsg>>
swVars == <<swPc, wake, sweepNow>>
clVars == <<clPc, closes>>
vars == <<running, mctp, initPc, rx_thread, timeout_thread, pending, next_instance_id, handle, ex, link, spurious, rxPc, rxMsg, swPc, wake, sweepNow, clPc, closes, now, allocated, recent, regSeq, pending_lock, cntPc, retval, shortSeen>>

\* a caller thread: where it is in sendAsync, its request, the deadline it
\* computed, whether its mctp->send threw
IdleCaller == [pc |-> "idle", request |-> <<>>, timeout |-> 0, threw |-> FALSE]
NoFrame == [bytes |-> <<>>, re |-> 0]

\* owners of the mutex: no thread, a worker or close(), a caller thread
NoOwner == [thread |-> "none", id |-> 0]
Owner(thread) == [thread |-> thread, id |-> 0]
Caller(e) == [thread |-> "caller", id |-> e]

\* the caller's output buffer before the call, and a call that has not
\* returned
StaleBuffer == <<255>>
NotReturned == [returned |-> FALSE, ok |-> FALSE, response |-> StaleBuffer]

Init ==
    /\ running = FALSE
    /\ mctp = "null"
    /\ initPc = "idle"
    /\ rx_thread = "none"
    /\ timeout_thread = "none"
    /\ pending = EmptyMap
    /\ next_instance_id = 0
    /\ handle = [e \in Exchanges |-> Unset]
    /\ ex = [e \in Exchanges |-> IdleCaller]
    /\ link = {}
    /\ spurious = 0
    /\ rxPc = "off"
    /\ rxMsg = NoFrame
    /\ swPc = "off"
    /\ wake = 0
    /\ sweepNow = 0
    /\ clPc = "idle"
    /\ closes = 0
    /\ now = 0
    /\ allocated = 0
    /\ recent = <<>>
    /\ regSeq = <<>>
    /\ pending_lock = NoOwner
    /\ cntPc = "idle"
    /\ retval = [e \in Exchanges |-> NotReturned]
    /\ shortSeen = {}

\* ---- initialize() --------------------------------------------------------
\* (mutant) running is set before the link's result is looked at
InitializeFail_SetsRunning ==
    /\ initPc = "idle"
    /\ mctp' = "failed"
    /\ running' = TRUE
    /\ initPc' = "failed"
    /\ UNCHANGED <<rx_thread, timeout_thread, next_instance_id, histVars, lockVars, outVars, pending, callerVars, linkVars, rxVars, swVars, clVars, now>>

\* LinuxMctpSerial::initialize returned an error string: return false
InitializeFail ==
    /\ initPc = "idle"
    /\ mctp' = "failed"
    /\ initPc' = "failed"
    /\ UNCHANGED <<running, rx_thread, timeout_thread, next_instance_id, histVars, lockVars, outVars, pending, callerVars, linkVars, rxVars, swVars, clVars, now>>

\* the link opened: running = true
InitializeOpen ==
    /\ initPc = "idle"
    /\ mctp' = "open"
    /\ running' = TRUE
    /\ initPc' = "startRx"
    /\ UNCHANGED <<rx_thread, timeout_thread, next_instance_id, histVars, lockVars, outVars, pending, callerVars, linkVars, rxVars, swVars, clVars, now>>

InitializeStartRx ==
    /\ initPc = "startRx"
    /\ rx_thread' = "joinable"
    /\ rxPc' = "top"
    /\ initPc' = "startTimeout"
    /\ UNCHANGED <<running, mctp, timeout_thread, next_instance_id, histVars, lockVars, outVars, pending, callerVars, linkVars, rxMsg, swVars, clVars, now>>

InitializeStartTimeout ==
    /\ initPc = "startTimeout"
    /\ timeout_thread' = "joinable"
    /\ swPc' = "top"
    /\ initPc' = "done"
    /\ UNCHANGED <<running, mctp, rx_thread, next_instance_id, histVars, lockVars, outVars, pending, callerVars, linkVars, rxVars, wake, sweepNow, clVars, now>>

Initialized == initPc \in {"failed", "done"}

\* ---- sendAsync() ---------------------------------------------------------
\* calls are numbered in the order they are made
MayCall(e) == Initialized /\ ex[e].pc = "idle" /\ (IF e = 1 THEN TRUE ELSE ex[e - 1].pc # "idle")

\* (mutant) the empty request is turned away but its promise is left unset
SendAsyncEmpty_Unset(e) ==
    /\ MayCall(e)
    /\ ex' = [ex EXCEPT ![e].pc = "done"]
    /\ UNCHANGED <<transportVars, pending, handle, linkVars, rxVars, swVars, clVars, now>>

\* request.empty(): a promise of its own, failed with invalid_argument
SendAsyncEmpty(e) ==
    /\ MayCall(e)
    /\ ex' = [ex EXCEPT ![e].pc = "done"]
    /\ handle' = [handle EXCEPT ![e] = SetOutcome(handle[e], "InvalidArgument", NoValue)]
    /\ UNCHANGED <<transportVars, pending, linkVars, rxVars, swVars, clVars, now>>

\* (mutant) the request is handed to the link before it is registered
SendAsyncBegin_SendsFirst(e, req, timeout_ms) ==
    /\ MayCall(e)
    /\ req # <<>>
    /\ ex' = [ex EXCEPT ![e] = [pc |-> "reg", request |-> req, timeout |-> now + timeout_ms, threw |-> FALSE]]
    /\ link' = IF mctp = "open" THEN link \cup {[bytes |-> ReplyFrame(e, req), re |-> e]} ELSE link
    /\ UNCHANGED <<transportVars, pending, handle, spurious, rxVars, swVars, clVars, now>>

\* instance id from the header, PendingRequest with deadline now + timeout_ms
SendAsyncBegin(e, req, timeout_ms) ==
    /\ MayCall(e)
    /\ req # <<>>
    /\ ex' = [ex EXCEPT ![e] = [pc |-> "reg", request |-> req, timeout |-> now + timeout_ms, threw |-> FALSE]]
    /\ UNCHANGED <<transportVars, pending, handle, linkVars, rxVars, swVars, clVars, now>>

\* (mutant) the overwritten promise is left as it is: nobody fulfils it
RegisterEffect_Orphans(e, id) ==
    /\ pending' = MapInsert(pending, id, PendingRequest(e, ex[e].timeout))
    /\ handle' = handle

\* (mutant) a request whose tag has an entry is stored beside that entry
RegisterEffect_KeepsBoth(e, id) ==
    /\ pending' = MapInsert(pending, IF id \in DOMAIN pending THEN id + TagModulus ELSE id, PendingRequest(e, ex[e].timeout))
    /\ handle' = handle

\* pending[instance_id] = std::move(pending_req): move-assignment abandons
\* the shared state of the promise that was stored under the same id
RegisterEffect(e, id) ==
    /\ pending' = MapInsert(pending, id, PendingRequest(e, ex[e].timeout))
    /\ handle' = IF id \in DOMAIN pending THEN [handle EXCEPT ![pending[id].promise] = Abandon(@)] ELSE handle

SendAsyncRegister(e) ==
    /\ ex[e].pc = "reg"
    /\ RegisterEffect(e, InstanceIdOf(ex[e].request[1]))
    /\ ex' = [ex EXCEPT ![e].pc = "send"]
    /\ UNCHANGED <<transportVars, linkVars, rxVars, swVars, clVars, now>>

\* mctp->send(request) has written the request.  On an open link it reaches
\* the endpoint and the reply is from then on under way to the receive
\* loop, also while send has not returned yet; it may stay under way for any
\* time, or for ever (an endpoint that does not answer).
SendAsyncSend(e) ==
    /\ ex[e].pc = "send"
    /\ link' = IF mctp = "open" THEN link \cup {[bytes |-> ReplyFrame(e, ex[e].request), re |-> e]} ELSE link
    /\ ex' = [ex EXCEPT ![e].pc = "sending"]
    /\ UNCHANGED <<transportVars, pending, handle, spurious, rxVars, swVars, clVars, now>>

\* mctp->send(request) returned: return future
SendAsyncReturn(e) ==
    /\ ex[e].pc = "sending"
    /\ ex' = [ex EXCEPT ![e].pc = "done"]
    /\ UNCHANGED <<transportVars, pending, handle, linkVars, rxVars, swVars, clVars, now>>

\* mctp->send(request) threw
SendAsyncSendThrows(e) ==
    /\ ex[e].pc = "send"
    /\ ex' = [ex EXCEPT ![e].pc = "fail", ![e].threw = TRUE]
    /\ UNCHANGED <<transportVars, pending, handle, linkVars, rxVars, swVars, clVars, now>>

\* (mutant) the catch block fails the promise but leaves the entry
SendFailedEffect_KeepsEntry(id) ==
    IF id \in DOMAIN pending
    THEN /\ handle' = [handle EXCEPT ![pending[id].promise] = SetOutcome(@, "SendFailed", NoValue)]
         /\ pending' = pending
    ELSE UNCHANGED <<handle, pending>>

\* (mutant) the catch block fails the promise and clears the whole table
SendFailedEffect_ClearsTable(id) ==
    IF id \in DOMAIN pending
    THEN /\ handle' = [e \in Exchanges |-> IF e = pending[id].promise THEN SetOutcome(handle[e], "SendFailed", NoValue) ELSE IF \E t \in DOMAIN pending : pending[t].promise = e THEN Abandon(handle[e]) ELSE handle[e]]
         /\ pending' = EmptyMap
    ELSE UNCHANGED <<handle, pending>>

\* catch block: find(instance_id); set_exception("Send failed"); erase
SendFailedEffect(id) ==
    IF id \in DOMAIN pending
    THEN /\ handle' = [handle EXCEPT ![pending[id].promise] = SetOutcome(@, "SendFailed", NoValue)]
         /\ pending' = MapErase(pending, {id})
    ELSE UNCHANGED <<handle, pending>>

\* (mutant) after the failure is recorded the request is sent again
SendAsyncFail_Retries(e) ==
    /\ ex[e].pc = "fail"
    /\ SendFailedEffect(InstanceIdOf(ex[e].request[1]))
    /\ ex' = [ex EXCEPT ![e].pc = "send"]
    /\ UNCHANGED <<transportVars, linkVars, rxVars, swVars, clVars, now>>

SendAsyncFail(e) ==
    /\ ex[e].pc = "fail"
    /\ SendFailedEffect(InstanceIdOf(ex[e].request[1]))
    /\ ex' = [ex EXCEPT ![e].pc = "done"]
    /\ UNCHANGED <<transportVars, linkVars, rxVars, swVars, clVars, now>>

\* ---- receiveLoop() -------------------------------------------------------
\* (mutant) the receive loop does not look at running
RxCheckRunning_Ignores ==
    /\ rxPc = "top"
    /\ rxPc' = "recv"
    /\ UNCHANGED <<transportVars, pending, callerVars, linkVars, rxMsg, swVars, clVars, now>>

RxCheckRunning ==
    /\ rxPc = "top"
    /\ rxPc' = IF running THEN "recv" ELSE "exited"
    /\ UNCHANGED <<transportVars, pending, callerVars, linkVars, rxMsg, swVars, clVars, now>>

\* recv_len <= 0 (or receive threw): sleep and go round again
RxReceiveNothing ==
    /\ rxPc = "recv"
    /\ rxPc' = "top"
    /\ UNCHANGED <<transportVars, pending, callerVars, linkVars, rxMsg, swVars, clVars, now>>

\* a frame arrived; one shorter than 2 bytes is dropped
RxReceiveFrame(f) ==
    /\ rxPc = "recv"
    /\ mctp = "open"
    /\ f \in link
    /\ link' = link \ {f}
    /\ IF Len(f.bytes) < 2 THEN rxPc' = "top" /\ rxMsg' = rxMsg /\ shortSeen' = shortSeen \cup ({InstanceIdOf(f.bytes[1])} \cap DOMAIN pending) ELSE rxPc' = "deliver" /\ rxMsg' = f /\ shortSeen' = shortSeen
    /\ UNCHANGED <<running, mctp, initPc, rx_thread, timeout_thread, next_instance_id, histVars, lockVars, retval, pending, callerVars, spurious, swVars, clVars, now>>

\* (mutant) the length of the frame is not looked at
RxReceiveSpurious_DecodesShort(f) ==
    /\ rxPc = "recv"
    /\ mctp = "open"
    /\ spurious < MaxSpurious
    /\ spurious' = spurious + 1
    /\ rxPc' = "deliver"
    /\ rxMsg' = [bytes |-> f, re |-> 0]
    /\ UNCHANGED <<transportVars, pending, callerVars, link, swVars, clVars, now>>

\* the link hands over a frame that answers no request
RxReceiveSpurious(f) ==
    /\ rxPc = "recv"
    /\ mctp = "open"
    /\ spurious < MaxSpurious
    /\ spurious' = spurious + 1
    /\ IF Len(f) < 2 THEN rxPc' = "top" /\ rxMsg' = rxMsg /\ shortSeen' = shortSeen \cup ({InstanceIdOf(f[1])} \cap DOMAIN pending) ELSE rxPc' = "deliver" /\ rxMsg' = [bytes |-> f, re |-> 0] /\ shortSeen' = shortSeen
    /\ UNCHANGED <<running, mctp, initPc, rx_thread, timeout_thread, next_instance_id, histVars, lockVars, retval, pending, callerVars, link, swVars, clVars, now>>

\* (mutant) the receive loop fulfils the promise but leaves the entry
DeliverEffect_KeepsEntry(msg) ==
    IF InstanceIdOf(msg[1]) \in DOMAIN pending
    THEN /\ handle' = [handle EXCEPT ![pending[InstanceIdOf(msg[1])].promise] = SetOutcome(@, "Response", msg)]
         /\ pending' = pending
    ELSE UNCHANGED <<handle, pending>>

\* (mutant) a frame that matches no entry is handed to the first entry
DeliverEffect_ToAnyEntry(msg) ==
    IF InstanceIdOf(msg[1]) \in DOMAIN pending
    THEN /\ handle' = [handle EXCEPT ![pending[InstanceIdOf(msg[1])].promise] = SetOutcome(@, "Response", msg)]
         /\ pending' = MapErase(pending, {InstanceIdOf(msg[1])})
    ELSE IF DOMAIN pending # {}
    THEN /\ handle' = [handle EXCEPT ![pending[CHOOSE t \in DOMAIN pending : TRUE].promise] = SetOutcome(@, "Response", msg)]
         /\ pending' = MapErase(pending, {CHOOSE t \in DOMAIN pending : TRUE})
    ELSE UNCHANGED <<handle, pending>>

\* (mutant) a frame is delivered only to the entry with the earliest deadline
DeliverEffect_OldestOnly(msg) ==
    IF InstanceIdOf(msg[1]) \in DOMAIN pending /\ \A t \in DOMAIN pending : pending[InstanceIdOf(msg[1])].timeout <= pending[t].timeout
    THEN /\ handle' = [handle EXCEPT ![pending[InstanceIdOf(msg[1])].promise] = SetOutcome(@, "Response", msg)]
         /\ pending' = MapErase(pending, {InstanceIdOf(msg[1])})
    ELSE UNCHANGED <<handle, pending>>

\* find(instance_id); set_value(msg); erase
DeliverEffect(msg) ==
    IF InstanceIdOf(msg[1]) \in DOMAIN pending
    THEN /\ handle' = [handle EXCEPT ![pending[InstanceIdOf(msg[1])].promise] = SetOutcome(@, "Response", msg)]
         /\ pending' = MapErase(pending, {InstanceIdOf(msg[1])})
    ELSE UNCHANGED <<handle, pending>>

RxDeliver ==
    /\ rxPc = "deliver"
    /\ DeliverEffect(rxMsg.bytes)
    /\ rxPc' = "top"
    /\ rxMsg' = NoFrame
    /\ UNCHANGED <<transportVars, ex, linkVars, swVars, clVars, now>>

\* ---- timeoutCleanupLoop() ------------------------------------------------
SweepCheckRunning ==
    /\ swPc = "top"
    /\ IF running THEN swPc' = "sleep" /\ wake' = now + SweepIntervalMs ELSE swPc' = "exited" /\ wake' = 0
    /\ UNCHANGED <<transportVars, pending, callerVars, linkVars, rxVars, sweepNow, clVars, now>>

\* sleep_for is over: now = steady_clock::now()
SweepWake ==
    /\ swPc = "sleep"
    /\ now >= wake
    /\ sweepNow' = now
    /\ swPc' = "sweep"
    /\ wake' = 0
    /\ UNCHANGED <<transportVars, pending, callerVars, linkVars, rxVars, clVars, now>>

\* (mutant) an entry expires only a sweep interval after its deadline
Expired_Late(t_now) == {t \in DOMAIN pending : t_now > pending[t].timeout + SweepIntervalMs}

\* (mutant) an entry expires at its deadline
Expired_NotStrict(t_now) == {t \in DOMAIN pending : t_now >= pending[t].timeout}

Expired(t_now) == {t \in DOMAIN pending : t_now > pending[t].timeout}

\* (mutant) the sweep fails the expired promises but leaves their entries
SweepEffect_KeepsEntries(t_now) ==
    /\ handle' = [e \in Exchanges |-> IF \E t \in Expired(t_now) : pending[t].promise = e THEN SetOutcome(handle[e], "Timeout", NoValue) ELSE handle[e]]
    /\ pending' = pending

\* every entry with now > timeout: set_exception("PLDM request timeout"); erase
SweepEffect(t_now) ==
    /\ handle' = [e \in Exchanges |-> IF \E t \in Expired(t_now) : pending[t].promise = e THEN SetOutcome(handle[e], "Timeout", NoValue) ELSE handle[e]]
    /\ pending' = MapErase(pending, Expired(t_now))

\* (mutant) the timeout thread ends after a sweep that expired an entry
SweepExpire_ExitsOnTimeout ==
    /\ swPc = "sweep"
    /\ SweepEffect(sweepNow)
    /\ swPc' = IF Expired(sweepNow) # {} THEN "exited" ELSE "top"
    /\ sweepNow' = 0
    /\ UNCHANGED <<transportVars, ex, linkVars, rxVars, wake, clVars, now>>

SweepExpire ==
    /\ swPc = "sweep"
    /\ SweepEffect(sweepNow)
    /\ swPc' = "top"
    /\ sweepNow' = 0
    /\ UNCHANGED <<transportVars, ex, linkVars, rxVars, wake, clVars, now>>

\* ---- close() -------------------------------------------------------------
CloseBegin ==
    /\ clPc = "idle"
    /\ closes < MaxClose
    /\ Initialized
    /\ running' = FALSE
    /\ clPc' = "joinRx"
    /\ UNCHANGED <<mctp, initPc, rx_thread, timeout_thread, next_instance_id, histVars, lockVars, outVars, pending, callerVars, linkVars, rxVars, swVars, closes, now>>

\* if (rx_thread.joinable()) rx_thread.join()
CloseJoinRx ==
    /\ clPc = "joinRx"
    /\ rx_thread = "joinable" => rxPc = "exited"
    /\ rx_thread' = IF rx_thread = "joinable" THEN "joined" ELSE rx_thread
    /\ clPc' = "joinTimeout"
    /\ UNCHANGED <<running, mctp, initPc, timeout_thread, next_instance_id, histVars, lockVars, outVars, pending, callerVars, linkVars, rxVars, swVars, closes, now>>

\* (mutant) close() does not wait for the timeout thread
CloseJoinTimeout_NoWait ==
    /\ clPc = "joinTimeout"
    /\ timeout_thread' = IF timeout_thread = "joinable" THEN "joined" ELSE timeout_thread
    /\ clPc' = "closeLink"
    /\ UNCHANGED <<running, mctp, initPc, rx_thread, next_instance_id, histVars, lockVars, outVars, pending, callerVars, linkVars, rxVars, swVars, closes, now>>

CloseJoinTimeout ==
    /\ clPc = "joinTimeout"
    /\ timeout_thread = "joinable" => swPc = "exited"
    /\ timeout_thread' = IF timeout_thread = "joinable" THEN "joined" ELSE timeout_thread
    /\ clPc' = "closeLink"
    /\ UNCHANGED <<running, mctp, initPc, rx_thread, next_instance_id, histVars, lockVars, outVars, pending, callerVars, linkVars, rxVars, swVars, closes, now>>

\* if (mctp) mctp->close()
CloseLink ==
    /\ clPc = "closeLink"
    /\ mctp' = IF mctp = "null" THEN mctp ELSE "closed"
    /\ clPc' = "drain"
    /\ UNCHANGED <<running, initPc, rx_thread, timeout_thread, next_instance_id, histVars, lockVars, outVars, pending, callerVars, linkVars, rxVars, swVars, closes, now>>

\* (mutant) close() only clears the table: the promises are destroyed unset
DrainEffect_ClearOnly ==
    /\ handle' = [e \in Exchanges |-> IF \E t \in DOMAIN pending : pending[t].promise = e THEN Abandon(handle[e]) ELSE handle[e]]
    /\ pending' = EmptyMap

\* every entry: set_exception("Transport closing"); pending.clear()
DrainEffect ==
    /\ handle' = [e \in Exchanges |-> IF \E t \in DOMAIN pending : pending[t].promise = e THEN SetOutcome(handle[e], "TransportClosing", NoValue) ELSE handle[e]]
    /\ pending' = EmptyMap

CloseDrain ==
    /\ clPc = "drain"
    /\ DrainEffect
    /\ clPc' = "idle"
    /\ closes' = closes + 1
    /\ UNCHANGED <<transportVars, ex, linkVars, rxVars, swVars, now>>

\* ---- the clock -----------------------------------------------------------
TimeMayPass ==
    /\ Initialized
    /\ swPc = "sleep" /\ now < wake
    /\ \A e \in Exchanges : ex[e].pc # "reg"

Tick ==
    /\ TimeMayPass
    /\ now + TickMs <= MaxTime
    /\ now' = now + TickMs
    /\ UNCHANGED <<transportVars, pending, callerVars, linkVars, rxVars, swVars, clVars>>

Next ==
    \/ InitializeFail
    \/ InitializeOpen
    \/ InitializeStartRx
    \/ InitializeStartTimeout
    \/ \E e \in Exchanges : SendAsyncEmpty(e)
    \/ \E e \in Exchanges, req \in Requests, ms \in Timeouts : SendAsyncBegin(e, req, ms)
    \/ \E e \in Exchanges : SendAsyncRegister(e)
    \/ \E e \in Exchanges : SendAsyncSend(e)
    \/ \E e \in Exchanges : SendAsyncReturn(e)
    \/ \E e \in Exchanges : SendAsyncSendThrows(e)
    \/ \E e \in Exchanges : SendAsyncFail(e)
    \/ RxCheckRunning
    \/ RxReceiveNothing
    \/ \E f \in link : RxReceiveFrame(f)
    \/ \E f \in SpuriousFrames : RxReceiveSpurious(f)
    \/ RxDeliver
    \/ SweepCheckRunning
    \/ SweepWake
    \/ SweepExpire
    \/ CloseBegin
    \/ CloseJoinRx
    \/ CloseJoinTimeout
    \/ CloseLink
    \/ CloseDrain
    \/ Tick

Spec == Init /\ [][Next]_vars

TypeOK ==
    /\ running \in BOOLEAN
    /\ mctp \in {"null", "failed", "open", "closed"}
    /\ DOMAIN pending \subseteq 0..(TagModulus - 1)
    /\ \A t \in DOMAIN pending : pending[t].promise \in Exchanges
    /\ now \in 0..MaxTime

\* ---- allocateInstanceId() ------------------------------------------------
\* next_instance_id++ on std::atomic<uint8_t>: one atomic read-modify-write
NextCounter(c) == (c + 1) % CounterModulus

\* (mutant) the id keeps 6 bits of the counter
AllocId_SixBits(c) == c % (2 * TagModulus)

\* the value returned for the counter value c read by the increment
AllocId(c) == c % TagModulus

\* the ids returned by the last TagModulus calls, oldest first
Window(s, id) == IF Len(s) < TagModulus THEN Append(s, id) ELSE Append(Tail(s), id)

\* uint8_t instance_id = transport->allocateInstanceId(), and the request
\* encoded with it: the caller holds a stamped request
AllocateEffect(e) ==
    /\ next_instance_id' = NextCounter(next_instance_id)
    /\ allocated' = allocated + 1
    /\ recent' = Window(recent, AllocId(next_instance_id))
    /\ ex' = [ex EXCEPT ![e] = [pc |-> "stamped", request |-> <<RequestHeader(AllocId(next_instance_id)), 1>>, timeout |-> 0, threw |-> FALSE]]

\* the transport as initialize() leaves it when it returns true, with the
\* given callers about to use it
Started(callers) ==
    /\ running = TRUE
    /\ mctp = "open"
    /\ initPc = "done"
    /\ rx_thread = "joinable"
    /\ timeout_thread = "joinable"
    /\ pending = EmptyMap
    /\ next_instance_id = 0
    /\ handle = [e \in callers |-> Unset]
    /\ ex = [e \in callers |-> IdleCaller]
    /\ link = {}
    /\ spurious = 0
    /\ rxPc = "top"
    /\ rxMsg = NoFrame
    /\ swPc = "top"
    /\ wake = 0
    /\ sweepNow = 0
    /\ clPc = "idle"
    /\ closes = 0
    /\ now = 0
    /\ allocated = 0
    /\ recent = <<>>
    /\ regSeq = <<>>
    /\ pending_lock = NoOwner
    /\ cntPc = "idle"
    /\ retval = [e \in callers |-> NotReturned]
    /\ shortSeen = {}

\* sendAsync called with the stamped request: the deadline is computed
StampedBegin(e, timeout_ms) ==
    /\ ex[e].pc = "stamped"
    /\ ex' = [ex EXCEPT ![e].pc = "reg", ![e].timeout = now + timeout_ms]
    /\ UNCHANGED <<transportVars, pending, handle, linkVars, rxVars, swVars, clVars, now>>

\* the receive loop has read the endpoint's reply to the request pending
\* under tag t: find; set_value; erase
ReplyArrives(t) ==
    /\ t \in DOMAIN pending
    /\ DeliverEffect(ReplyFrame(pending[t].promise, ex[pending[t].promise].request))
    /\ UNCHANGED <<transportVars, ex, linkVars, rxVars, swVars, clVars, now>>

\* ---- caller threads in a loop: allocate, stamp, sendAsync, next request ---
\* Each of the threads in Exchanges issues one request after the other; it
\* turns to its next request when the handle of the last one is fulfilled.
\* The requests are sent within one sweep interval: the clock stands still.
LoopAllocate(e) ==
    /\ allocated < MaxAlloc
    /\ ex[e].pc = "idle" \/ (ex[e].pc = "done" /\ handle[e].kind # "none")
    /\ AllocateEffect(e)
    /\ handle' = [handle EXCEPT ![e] = Unset]
    /\ UNCHANGED <<running, mctp, initPc, rx_thread, timeout_thread, regSeq, lockVars, outVars, pending, linkVars, rxVars, swVars, clVars, now>>

\* the lock_guard scope of sendAsync; mctp->send then hands the request to
\* the link and sendAsync returns
LoopRegister(e) ==
    /\ ex[e].pc = "reg"
    /\ RegisterEffect(e, InstanceIdOf(ex[e].request[1]))
    /\ ex' = [ex EXCEPT ![e].pc = "done"]
    /\ UNCHANGED <<transportVars, linkVars, rxVars, swVars, clVars, now>>

AllocInit == Started(Exchanges)

AllocNext ==
    \/ \E e \in Exchanges : LoopAllocate(e)
    \/ \E e \in Exchanges, ms \in Timeouts : StampedBegin(e, ms)
    \/ \E e \in Exchanges : LoopRegister(e)
    \/ \E t \in DOMAIN pending : ReplyArrives(t)

AllocSpec == AllocInit /\ [][AllocNext]_vars

\* ---- a burst of requests: more callers than instance ids -------------------
\* Every caller in BurstCallers issues one request; the calls are numbered in
\* the order of their allocateInstanceId calls, at most MaxThreads callers
\* are between allocateInstanceId and the return of sendAsync, and the
\* endpoint answers none of the requests within the burst.
InCall(e) == ex[e].pc \in {"stamped", "reg"}

BurstAllocate(e) ==
    /\ ex[e].pc = "idle"
    /\ IF e = 1 THEN TRUE ELSE ex[e - 1].pc # "idle"
    /\ Cardinality({o \in BurstCallers : InCall(o)}) < MaxThreads
    /\ AllocateEffect(e)
    /\ UNCHANGED <<running, mctp, initPc, rx_thread, timeout_thread, regSeq, lockVars, outVars, pending, handle, linkVars, rxVars, swVars, clVars, now>>

\* the number of times a caller registered after one that allocated later;
\* once it is MaxOvertake, the callers register in the order of their ids
Overtakes(s) == Cardinality({i \in 1..(Len(s) - 1) : s[i] > s[i + 1]})

\* the lock_guard scope of sendAsync; mctp->send then hands the request to
\* the link and sendAsync returns
BurstRegister(e) ==
    /\ ex[e].pc = "reg"
    /\ (\E o \in BurstCallers : o < e /\ InCall(o)) => Overtakes(regSeq) < MaxOvertake
    /\ RegisterEffect(e, InstanceIdOf(ex[e].request[1]))
    /\ ex' = [ex EXCEPT ![e].pc = "done"]
    /\ regSeq' = Append(regSeq, e)
    /\ UNCHANGED <<running, mctp, initPc, rx_thread, timeout_thread, next_instance_id, allocated, recent, lockVars, outVars, linkVars, rxVars, swVars, clVars, now>>

BurstInit == Started(BurstCallers)

BurstNext ==
    \/ \E e \in BurstCallers : BurstAllocate(e)
    \/ \E e \in BurstCallers, ms \in Timeouts : StampedBegin(e, ms)
    \/ \E e \in BurstCallers : BurstRegister(e)

BurstSpec == BurstInit /\ [][BurstNext]_vars

\* ---- the mutex pending_lock, one step per lock_guard ----------------------
\* Each std::lock_guard<std::mutex> lock(pending_lock) scope is two steps:
\* the constructor returns once the mutex is free, the block runs and the
\* destructor unlocks.
\* the threads that call sendAndWaitResponse
LockCallers == Exchanges
coreVars == <<running, mctp, initPc, rx_thread, timeout_thread, next_instance_id, histVars>>

\* (mutant) the constructor of the guard returns whoever holds the mutex
Acquire_NoWait(t) == pending_lock' = t

\* std::lock_guard constructor, std::mutex::lock
Acquire(t) == pending_lock = NoOwner /\ pending_lock' = t

\* std::lock_guard destructor, std::mutex::unlock
Release(t) == pending_lock = t /\ pending_lock' = NoOwner

\* sendAsync: the block that registers the request
SendAsyncLock(e) ==
    /\ ex[e].pc = "reg"
    /\ Acquire(Caller(e))
    /\ ex' = [ex EXCEPT ![e].pc = "regLocked"]
    /\ UNCHANGED <<coreVars, cntPc, outVars, pending, handle, linkVars, rxVars, swVars, clVars, now>>

SendAsyncRegisterLocked(e) ==
    /\ ex[e].pc = "regLocked"
    /\ RegisterEffect(e, InstanceIdOf(ex[e].request[1]))
    /\ Release(Caller(e))
    /\ ex' = [ex EXCEPT ![e].pc = "send"]
    /\ UNCHANGED <<coreVars, cntPc, outVars, linkVars, rxVars, swVars, clVars, now>>

\* sendAsync: the block in the catch of mctp->send
SendAsyncFailLock(e) ==
    /\ ex[e].pc = "fail"
    /\ Acquire(Caller(e))
    /\ ex' = [ex EXCEPT ![e].pc = "failLocked"]
    /\ UNCHANGED <<coreVars, cntPc, outVars, pending, handle, linkVars, rxVars, swVars, clVars, now>>

SendAsyncFailLocked(e) ==
    /\ ex[e].pc = "failLocked"
    /\ SendFailedEffect(InstanceIdOf(ex[e].request[1]))
    /\ Release(Caller(e))
    /\ ex' = [ex EXCEPT ![e].pc = "done"]
    /\ UNCHANGED <<coreVars, cntPc, outVars, linkVars, rxVars, swVars, clVars, now>>

\* receiveLoop: the block that matches the frame
RxDeliverLock ==
    /\ rxPc = "deliver"
    /\ Acquire(Owner("rx"))
    /\ rxPc' = "deliverLocked"
    /\ UNCHANGED <<coreVars, cntPc, outVars, pending, callerVars, linkVars, rxMsg, swVars, clVars, now>>

RxDeliverLocked ==
    /\ rxPc = "deliverLocked"
    /\ DeliverEffect(rxMsg.bytes)
    /\ Release(Owner("rx"))
    /\ rxPc' = "top"
    /\ rxMsg' = NoFrame
    /\ UNCHANGED <<coreVars, cntPc, outVars, ex, linkVars, swVars, clVars, now>>

\* timeoutCleanupLoop: the block that walks the table
SweepLock ==
    /\ swPc = "sweep"
    /\ Acquire(Owner("timeout"))
    /\ swPc' = "sweepLocked"
    /\ UNCHANGED <<coreVars, cntPc, outVars, pending, callerVars, linkVars, rxVars, wake, sweepNow, clVars, now>>

SweepExpireLocked ==
    /\ swPc = "sweepLocked"
    /\ SweepEffect(sweepNow)
    /\ Release(Owner("timeout"))
    /\ swPc' = "top"
    /\ sweepNow' = 0
    /\ UNCHANGED <<coreVars, cntPc, outVars, ex, linkVars, rxVars, wake, clVars, now>>

\* close(): the block that drains the table
CloseDrainLock ==
    /\ clPc = "drain"
    /\ Acquire(Owner("close"))
    /\ clPc' = "drainLocked"
    /\ UNCHANGED <<coreVars, cntPc, outVars, pending, callerVars, linkVars, rxVars, swVars, closes, now>>

CloseDrainLocked ==
    /\ clPc = "drainLocked"
    /\ DrainEffect
    /\ Release(Owner("close"))
    /\ clPc' = "idle"
    /\ closes' = closes + 1
    /\ UNCHANGED <<coreVars, cntPc, outVars, ex, linkVars, rxVars, swVars, now>>

\* getPendingRequestCount(), called by a thread of its own at any time
CountLock ==
    /\ cntPc = "idle"
    /\ Acquire(Owner("count"))
    /\ cntPc' = "locked"
    /\ UNCHANGED <<coreVars, outVars, pending, callerVars, linkVars, rxVars, swVars, clVars, now>>

\* return pending.size()
CountReturn ==
    /\ cntPc = "locked"
    /\ Release(Owner("count"))
    /\ cntPc' = "idle"
    /\ UNCHANGED <<coreVars, outVars, pending, callerVars, linkVars, rxVars, swVars, clVars, now>>

\* ---- sendAndWaitResponse() -----------------------------------------------
\* (mutant) the output buffer is cleared when the future throws
WaitResult_ClearsBuffer(h, buffer) == [returned |-> TRUE, ok |-> h.kind = "Response", response |-> IF h.kind = "Response" THEN h.value ELSE NoValue]

\* try { response = future.get(); return true; } catch ... { return false; }
\* get() throws before the assignment when the state holds an exception
WaitResult(h, buffer) == IF h.kind = "Response" THEN [returned |-> TRUE, ok |-> TRUE, response |-> h.value] ELSE [returned |-> TRUE, ok |-> FALSE, response |-> buffer]

\* the caller is in future.get() from the return of sendAsync until the
\* shared state is ready
Waiting(e) == ex[e].pc = "done" /\ ~retval[e].returned

WaitReturn(e) ==
    /\ Waiting(e)
    /\ handle[e].kind # "none"
    /\ retval' = [retval EXCEPT ![e] = WaitResult(handle[e], retval[e].response)]
    /\ UNCHANGED <<coreVars, lockVars, shortSeen, pending, callerVars, linkVars, rxVars, swVars, clVars, now>>

\* the clock, as in Tick; the deadline a caller computed is stored before
\* time moves on
LockTick ==
    /\ Tick
    /\ \A e \in Exchanges : ex[e].pc # "regLocked"

LockNext ==
    \/ InitializeFail
    \/ InitializeOpen
    \/ InitializeStartRx
    \/ InitializeStartTimeout
    \/ \E e \in LockCallers : SendAsyncEmpty(e)
    \/ \E e \in LockCallers, req \in Requests, ms \in Timeouts : SendAsyncBegin(e, req, ms)
    \/ \E e \in LockCallers : SendAsyncLock(e)
    \/ \E e \in LockCallers : SendAsyncRegisterLocked(e)
    \/ \E e \in LockCallers : SendAsyncSend(e)
    \/ \E e \in LockCallers : SendAsyncReturn(e)
    \/ \E e \in LockCallers : SendAsyncSendThrows(e)
    \/ \E e \in LockCallers : SendAsyncFailLock(e)
    \/ \E e \in LockCallers : SendAsyncFailLocked(e)
    \/ \E e \in LockCallers : WaitReturn(e)
    \/ RxCheckRunning
    \/ RxReceiveNothing
    \/ \E f \in link : RxReceiveFrame(f)
    \/ RxDeliverLock
    \/ RxDeliverLocked
    \/ SweepCheckRunning
    \/ SweepWake
    \/ SweepLock
    \/ SweepExpireLocked
    \/ CloseBegin
    \/ CloseJoinRx
    \/ CloseJoinTimeout
    \/ CloseLink
    \/ CloseDrainLock
    \/ CloseDrainLocked
    \/ CountLock
    \/ CountReturn
    \/ LockTick

LockSpec == Init /\ [][LockNext]_vars

\* ---- properties -----------------------------------------------------------
\* exchange e has been put into the table by its sendAsync call
Registered(e) == ex[e].pc \in {"send", "sending", "fail", "done"} /\ ex[e].request # <<>>
InTable(e) == \E t \in DOMAIN pending : pending[t].promise = e
RxDelivers == rxPc = "deliver" /\ rxPc' = "top"

\* C1: the result handle of an exchange is fulfilled at most once, whatever
\* the interleaving of the receive loop, the sweeper, the send-failure path
\* and close(): no promise ever sees a second set_value / set_exception.
C1_FulfilledAtMostOnce == \A e \in Exchanges : handle[e].sets <= 1

\* an exchange the receive loop completed, whose deadline has since passed
\* under the running sweeper and which close() has drained past
C1_Witness == \E e \in Exchanges : handle[e].kind = "Response" /\ handle[e].sets = 1 /\ now > ex[e].timeout + SweepIntervalMs /\ closes = 1

\* C3: registration before send: a reply that the receive loop processes
\* while its exchange is still unresolved, at any moment after the send has
\* begun, finds the entry and is delivered to that exchange.
C3_RegisteredBeforeSend == [][(RxDelivers /\ rxMsg.re # 0 /\ handle[rxMsg.re].kind = "none") => (handle'[rxMsg.re].kind = "Response" /\ handle'[rxMsg.re].value = rxMsg.bytes)]_vars

\* the reply was delivered while mctp->send had not returned yet
C3_Witness == \E e \in Exchanges : ex[e].pc = "sending" /\ handle[e].kind = "Response" /\ handle[e].value = ReplyFrame(e, ex[e].request)

\* bits 2-6 of a header byte, read off the byte's binary layout
C4_TagBits(byte) == CHOOSE t \in 0..31 : \E hi \in 0..1, lo \in 0..3 : byte = hi * 128 + t * 4 + lo

\* C4: when the receive loop looks up a frame of at least 2 bytes whose
\* header carries tag t in bits 2-6 and an exchange is pending under t, that
\* exchange's handle resolves with exactly the frame's bytes, the entry for t
\* is removed and the number of pending requests drops by one.
C4_MatchCompletes == [][(RxDelivers /\ Len(rxMsg.bytes) >= 2 /\ C4_TagBits(rxMsg.bytes[1]) \in DOMAIN pending) => (/\ handle'[pending[C4_TagBits(rxMsg.bytes[1])].promise] = [kind |-> "Response", value |-> rxMsg.bytes, sets |-> 1] /\ C4_TagBits(rxMsg.bytes[1]) \notin DOMAIN pending' /\ Cardinality(DOMAIN pending') = Cardinality(DOMAIN pending) - 1)]_vars

\* the only pending exchange was completed by its reply: the count is 0 again
C4_Witness == \E e \in Exchanges : handle[e].kind = "Response" /\ handle[e].value = ReplyFrame(e, ex[e].request) /\ DOMAIN pending = {} /\ running

\* the transport ran, close() has returned and no sendAsync call is in
\* progress: both workers have exited, so nothing is left that could fulfil
\* a handle
Quiescent == initPc = "done" /\ closes >= 1 /\ clPc = "idle" /\ \A e \in Exchanges : ex[e].pc \in {"idle", "done"}
Outcomes == {"Response", "Timeout", "SendFailed", "TransportClosing"}

\* C2: every handle that sendAsync returned for a request is fulfilled with
\* one of response, Timeout, SendFailed, TransportClosing: once close() has
\* returned and every sendAsync call has returned, no handle is still
\* waiting.
C2_EveryHandleFulfilled == Quiescent => \A e \in Exchanges : Registered(e) => handle[e].kind \in Outcomes

\* C5: a frame sent in reply to exchange A is never delivered as the
\* successful result of another exchange B.  Stated for plain tag reuse: A
\* has timed out and its tag was used again.
C5_ReplyOnlyToItsSender == [][\A b \in Exchanges : (RxDelivers /\ rxMsg.re # 0 /\ handle[rxMsg.re].kind = "Timeout" /\ handle[b].kind = "none" /\ handle'[b].kind = "Response") => rxMsg.re = b]_vars

SweepExpires == swPc = "sweep" /\ swPc' = "top"

\* C6: while the transport is running no entry stays in the table later
\* than its deadline plus one sweep interval, and the entries a sweep removes
\* are failed with Timeout.
C6_TimeoutAccuracy == [](running => \A t \in DOMAIN pending : now <= pending[t].timeout + SweepIntervalMs) /\ [][SweepExpires => \A t \in DOMAIN pending : t \notin DOMAIN pending' => handle'[pending[t].promise].kind = "Timeout"]_vars

\* an exchange nobody answered, failed with Timeout a full sweep interval
\* after its deadline, the transport still running
C6_Witness == \E e \in Exchanges : running /\ handle[e].kind = "Timeout" /\ ~InTable(e) /\ now = ex[e].timeout + SweepIntervalMs /\ swPc = "top"

SendFailureHandled(e) == ex[e].pc = "fail" /\ ex'[e].pc = "done"

\* C7 as claimed: when the send of an exchange fails, the handle sendAsync
\* returns is failed with SendFailed and the table no longer holds the
\* exchange.  Stated for a running transport, a tag no other exchange uses
\* and a link that delivers no frame of its own.
C7_SendFailureYieldsSendFailed == [][\A e \in Exchanges : (SendFailureHandled(e) /\ running /\ spurious = 0 /\ \A o \in Exchanges \ {e} : ex[o].request = <<>>) => (handle'[e].kind = "SendFailed" /\ ~InTable(e)')]_vars

\* C7 as amended: the failure path fails with SendFailed and removes the
\* entry registered under the request's tag; the exchange's own handle is
\* SendFailed if its entry was still there, and in every case it is fulfilled
\* and the table holds no entry of the exchange when sendAsync returns.
C7_SendFailureResolves == [][\A e \in Exchanges : SendFailureHandled(e) => (/\ handle'[e].kind # "none" /\ ~InTable(e)' /\ InstanceIdOf(ex[e].request[1]) \notin DOMAIN pending' /\ (InTable(e) => handle'[e].kind = "SendFailed") /\ (~InTable(e) => handle'[e] = handle[e]))]_vars

\* a failed send whose exchange the failure path itself resolved
C7_Witness == \E e \in Exchanges : ex[e].pc = "done" /\ ex[e].threw /\ handle[e].kind = "SendFailed" /\ ~InTable(e)

\* C8: the failure path of exchange A leaves every entry under another tag,
\* and the handle of the exchange it belongs to, unchanged.
C8_SendFailureIsolated == [][\A a \in Exchanges : SendFailureHandled(a) => \A t \in DOMAIN pending : t # InstanceIdOf(ex[a].request[1]) => (t \in DOMAIN pending' /\ pending'[t] = pending[t] /\ handle'[pending[t].promise] = handle[pending[t].promise])]_vars

\* B was registered before A was called and is still pending after A's send
\* failed and was cleaned up; B's own reply is in the receive loop's hands
C8_Witness == \E a, b \in Exchanges : /\ ex[a].pc = "done" /\ ex[a].threw /\ handle[a].kind = "SendFailed" /\ Registered(b) /\ ex[b].timeout < ex[a].timeout /\ InTable(b) /\ handle[b].kind = "none" /\ InstanceIdOf(ex[a].request[1]) # InstanceIdOf(ex[b].request[1]) /\ rxPc = "deliver" /\ rxMsg.re = b

\* C9: a handle is failed with SendFailed only if the send of its own
\* exchange failed, and with Timeout only if its own deadline has passed
\* (stated for the running transport).
C9_FailureOnlyOwn == running => \A e \in Exchanges : (handle[e].kind = "SendFailed" => ex[e].threw) /\ (handle[e].kind = "Timeout" => now > ex[e].timeout)

CloseReturns == clPc = "drain" /\ clPc' = "idle"

\* C10: when close() returns the table is empty, every exchange registered
\* before the drain is resolved, and every exchange that was in the table at
\* the drain is failed with TransportClosing.
C10_ShutdownDrains == [][CloseReturns => (/\ DOMAIN pending' = {} /\ \A e \in Exchanges : Registered(e) => handle'[e].kind # "none" /\ \A t \in DOMAIN pending : handle'[pending[t].promise].kind = "TransportClosing")]_vars

\* close() has returned having failed two pending exchanges ahead of their
\* deadlines
C10_Witness == closes = 1 /\ clPc = "idle" /\ DOMAIN pending = {} /\ \E a, b \in Exchanges : a # b /\ handle[a].kind = "TransportClosing" /\ handle[b].kind = "TransportClosing" /\ now <= ex[a].timeout /\ now <= ex[b].timeout

\* a sendAsync call is made: the caller leaves "idle"
SendAsyncCalled(e) == ex[e].pc = "idle" /\ ex'[e].pc # "idle"

\* C11: a second close(), called after the first one returned, is a no-op:
\* from its first step to its last it finds no joinable worker and an empty
\* table, and the transport is not running (stated for a transport that
\* initialize() had started).
C11_SecondCloseNoOp == (initPc = "done" /\ closes >= 1 /\ clPc # "idle") => (~running /\ rx_thread # "joinable" /\ timeout_thread # "joinable" /\ pending = EmptyMap)

\* C12: a sendAsync call made while the transport is not running returns at
\* once with an already-failed handle: it does not go on to register the
\* request and to call mctp->send, and the table and the link stay as they
\* are.
C12_RejectsWhenNotRunning == [][\A e \in Exchanges : (SendAsyncCalled(e) /\ ~running) => (ex'[e].pc = "done" /\ handle'[e].kind # "none" /\ pending' = pending /\ link' = link)]_vars

\* C13: a sendAsync call with an empty request returns a handle that is
\* already failed with invalid_argument, set once; the table, the number of
\* pending requests and the link are unchanged and mctp->send is not
\* reached.
C13_EmptyRequestRejected == [][\A e \in Exchanges : (SendAsyncCalled(e) /\ ex'[e].request = <<>>) => (/\ handle'[e] = [kind |-> "InvalidArgument", value |-> NoValue, sets |-> 1] /\ ex'[e].pc = "done" /\ pending' = pending /\ Cardinality(DOMAIN pending') = Cardinality(DOMAIN pending) /\ link' = link /\ \A o \in Exchanges \ {e} : handle'[o] = handle[o])]_vars

\* an empty request was turned away while another exchange was pending on
\* the running transport
C13_Witness == \E e, o \in Exchanges : running /\ handle[e].kind = "InvalidArgument" /\ ex[e].pc = "done" /\ ex[e].request = <<>> /\ InTable(o) /\ handle[o].kind = "none" /\ Cardinality(DOMAIN pending) = 1

\* C14: when the receive loop looks up a frame whose tag has no entry, the
\* frame is dropped: the table, every handle and everything else but the
\* loop's own position are unchanged, so every pending exchange goes on from
\* the very state it was in and reaches the outcome it would have reached.
C14_UnmatchedDiscarded == [][(RxDelivers /\ C4_TagBits(rxMsg.bytes[1]) \notin DOMAIN pending) => (rxMsg' = NoFrame /\ UNCHANGED <<transportVars, pending, callerVars, linkVars, swVars, clVars, now>>)]_vars

\* the reply to a came after a had timed out and found no entry; b, pending
\* under another tag, has its own response
C14_Witness == \E a, b \in Exchanges : /\ running /\ rxPc = "top" /\ a # b /\ Registered(a) /\ Registered(b) /\ handle[a].kind = "Timeout" /\ ex[a].pc = "done" /\ ~ex[a].threw /\ ~\E f \in link : f.re = a /\ InstanceIdOf(ex[a].request[1]) # InstanceIdOf(ex[b].request[1]) /\ handle[b].kind = "Response" /\ handle[b].value = ReplyFrame(b, ex[b].request)

\* C15: the k-th call of allocateInstanceId (k counted from 0 over all
\* threads) returns k mod 32, a value in 0..31, also when the 8-bit counter
\* wraps from 255 to 0; every call consumes a counter value of its own (after
\* k calls the counter holds k mod 256), and the ids of any 32 consecutive
\* calls are pairwise distinct.  Stated of the last 32 calls in every state.
C15_AllocatorModulo == /\ next_instance_id = allocated % 256
                       /\ Len(recent) = (IF allocated < 32 THEN allocated ELSE 32)
                       /\ \A i \in 1..Len(recent) : recent[i] \in 0..31 /\ recent[i] = (allocated - Len(recent) + i - 1) % 32
                       /\ \A i, j \in 1..Len(recent) : i # j => recent[i] # recent[j]

\* the counter has wrapped: calls 255 and 256, made by two threads that both
\* still hold their stamped requests, returned 31 and 0
C15_Witness == allocated = 257 /\ next_instance_id = 1 /\ \E a, b \in Exchanges : ex[a].pc = "stamped" /\ ex[a].request[1] = RequestHeader(31) /\ ex[b].pc = "stamped" /\ ex[b].request[1] = RequestHeader(0)

\* the exchanges outstanding: an instance id is allocated and the handle is
\* not fulfilled
Outstanding == {o \in DOMAIN ex : ex[o].pc \in {"stamped", "reg"} \/ (ex[o].pc = "done" /\ handle[o].kind = "none")}
Registers(e) == ex[e].pc = "reg" /\ ex'[e].pc = "done"

\* C16: with every request stamped by allocateInstanceId and at most 32
\* exchanges outstanding, sendAsync never finds the tag of the request in the
\* table and the registration fulfils (overwrites) no handle.
C16_NoCollisionWithin32 == [][\A e \in Exchanges : (Registers(e) /\ Cardinality(Outstanding) <= TagModulus) => (InstanceIdOf(ex[e].request[1]) \notin DOMAIN pending /\ handle' = handle)]_vars

\* C17: the table's keys are exactly the tags of the exchanges in flight:
\* every entry belongs to an exchange whose handle is still unfulfilled, two
\* entries never belong to the same exchange, and every exchange that has
\* been registered and whose handle is unfulfilled has an entry, under its
\* own tag.
C17_TableIsInFlight == /\ \A t \in DOMAIN pending : handle[pending[t].promise].kind = "none" /\ InstanceIdOf(ex[pending[t].promise].request[1]) = t
                       /\ \A t, u \in DOMAIN pending : pending[t].promise = pending[u].promise => t = u
                       /\ \A e \in Exchanges : (Registered(e) /\ handle[e].kind = "none") => InTable(e)

\* two exchanges in flight under two tags while a third party's frame is in
\* the receive loop's hands
C17_Witness == running /\ Cardinality(DOMAIN pending) = 2 /\ rxPc = "deliver" /\ \A e \in Exchanges : Registered(e) /\ handle[e].kind = "none"

\* C18: the table never holds more than 32 entries; a request registered
\* when it holds 32 carries a tag that has an entry, the exchange of that
\* entry and no other is evicted (its handle fails with broken promise), the
\* entries under the other tags stay and the count stays 32.
C18_CountAtMost32 == [](Cardinality(DOMAIN pending) <= 32) /\ [][\A e \in BurstCallers : (Registers(e) /\ Cardinality(DOMAIN pending) = 32) => (/\ InstanceIdOf(ex[e].request[1]) \in DOMAIN pending /\ Cardinality(DOMAIN pending') = 32 /\ handle'[pending[InstanceIdOf(ex[e].request[1])].promise].kind = "BrokenPromise" /\ \A o \in BurstCallers \ {pending[InstanceIdOf(ex[e].request[1])].promise} : handle'[o] = handle[o] /\ \A t \in DOMAIN pending \ {InstanceIdOf(ex[e].request[1])} : pending'[t] = pending[t])]_vars

\* 33 requests are registered: 32 entries, one exchange evicted
C18_Witness == Cardinality(DOMAIN pending) = 32 /\ Cardinality({e \in BurstCallers : ex[e].pc = "done"}) = 33 /\ Cardinality({e \in BurstCallers : handle[e].kind = "BrokenPromise"}) = 1 /\ Cardinality({e \in BurstCallers : handle[e].kind = "none"}) = 32

\* sendAsync registers its request under a tag that has an entry
SendAsyncCollides(e) == ex[e].pc = "reg" /\ ex'[e].pc = "send" /\ InstanceIdOf(ex[e].request[1]) \in DOMAIN pending

\* C19: when sendAsync registers a tag that has an entry, the exchange of
\* that entry is fulfilled with a failure (broken promise) and has no entry
\* any more, and the table maps the tag to the new exchange; a frame with a
\* tag goes to the exchange the table maps that tag to.
C19_CollisionEvicts == [][\A e \in Exchanges : SendAsyncCollides(e) => (/\ handle'[pending[InstanceIdOf(ex[e].request[1])].promise].kind = "BrokenPromise" /\ (\A t \in DOMAIN pending' : pending'[t].promise # pending[InstanceIdOf(ex[e].request[1])].promise) /\ pending'[InstanceIdOf(ex[e].request[1])].promise = e /\ handle'[e].kind = "none")]_vars /\ [][(RxDelivers /\ InstanceIdOf(rxMsg.bytes[1]) \in DOMAIN pending) => handle'[pending[InstanceIdOf(rxMsg.bytes[1])].promise].value = rxMsg.bytes]_vars

\* a was evicted by b under the same tag, and b has received its own reply
C19_Witness == \E a, b \in Exchanges : a # b /\ running /\ Registered(a) /\ Registered(b) /\ InstanceIdOf(ex[a].request[1]) = InstanceIdOf(ex[b].request[1]) /\ handle[a].kind = "BrokenPromise" /\ handle[b].kind = "Response" /\ handle[b].value = ReplyFrame(b, ex[b].request)

\* the place of caller e in the order of registration
RegPos(e) == CHOOSE i \in 1..Len(regSeq) : regSeq[i] = e

\* C20: when a request is registered into the full table (32 pending) and
\* its tag collides, the entry it overwrites is the earliest-registered of
\* the pending requests.
C20_OldestOverwritten == [][\A e \in BurstCallers : (Registers(e) /\ Cardinality(DOMAIN pending) = TagModulus /\ InstanceIdOf(ex[e].request[1]) \in DOMAIN pending) => \A t \in DOMAIN pending : RegPos(pending[InstanceIdOf(ex[e].request[1])].promise) <= RegPos(pending[t].promise)]_vars

\* the tag of the request of exchange e
TagOf(e) == InstanceIdOf(ex[e].request[1])
OwnReply(e) == handle[e].kind = "Response" /\ handle[e].value = ReplyFrame(e, ex[e].request)

\* C21: exchanges on distinct tags complete in any order: the reply to a
\* pending exchange is delivered whatever else is pending (also entries with
\* earlier deadlines), and the delivery leaves every entry under another tag
\* and its handle as they were, so that exchange can still complete.
C21_IndependentCompletion == [][(RxDelivers /\ InstanceIdOf(rxMsg.bytes[1]) \in DOMAIN pending) => (/\ handle'[pending[InstanceIdOf(rxMsg.bytes[1])].promise].kind = "Response" /\ \A t \in DOMAIN pending \ {InstanceIdOf(rxMsg.bytes[1])} : t \in DOMAIN pending' /\ pending'[t] = pending[t] /\ handle'[pending[t].promise] = handle[pending[t].promise])]_vars

\* b, called 50 ms after a, has its response while a is still pending, and
\* a's own reply is in the receive loop's hands
C21_Witness == \E a, b \in Exchanges : /\ running /\ Registered(a) /\ Registered(b) /\ ex[a].timeout < ex[b].timeout /\ TagOf(a) # TagOf(b) /\ OwnReply(b) /\ ex[a].pc = "done" /\ InTable(a) /\ handle[a].kind = "none" /\ rxPc = "deliver" /\ rxMsg.re = a

\* C22: when the link cannot be opened initialize fails, running stays
\* false and no worker thread exists; running implies an open link, and a
\* worker thread exists only after the link was opened.
C22_InitFailureNeverRuns == /\ initPc = "failed" => (~running /\ rx_thread = "none" /\ timeout_thread = "none" /\ rxPc = "off" /\ swPc = "off")
                            /\ running => (mctp = "open" /\ initPc \in {"startRx", "startTimeout", "done"})
                            /\ (rx_thread # "none" \/ timeout_thread # "none" \/ rxPc # "off" \/ swPc # "off") => (mctp \in {"open", "closed"} /\ initPc \in {"startTimeout", "done"})
                            /\ initPc = "done" => (rx_thread # "none" /\ timeout_thread # "none")

\* initialize failed; since then a request was sent and close() was called
C22_Witness == initPc = "failed" /\ closes = 1 /\ clPc = "idle" /\ \E e \in Exchanges : Registered(e) /\ ex[e].pc = "done"

\* C24: whatever timeouts, send failures, unmatched and too-short frames
\* occur, a transport that was started and on which close() has not been
\* called is running, the link is open and both worker threads are in their
\* loops.
C24_FailuresDoNotStop == (initPc = "done" /\ closes = 0 /\ clPc = "idle") => (running /\ mctp = "open" /\ rx_thread = "joinable" /\ timeout_thread = "joinable" /\ rxPc \in {"top", "recv", "deliver"} /\ swPc \in {"top", "sleep", "sweep"})

\* a timed out, a too-short frame was dropped, and b, called after that
\* timeout under another tag, has its response from the running transport
C24_Witness == \E a, b \in Exchanges : /\ running /\ closes = 0 /\ clPc = "idle" /\ Registered(a) /\ Registered(b) /\ handle[a].kind = "Timeout" /\ shortSeen # {} /\ TagOf(a) # TagOf(b) /\ ex[b].timeout >= ex[a].timeout + SweepIntervalMs + TickMs /\ OwnReply(b)

\* C25: a sendAsync call reaches mctp->send at most once (no step takes a
\* call back to before its send), and a request is handed to the link only by
\* the send step of its own call: never by the timeout thread, the receive
\* loop, the failure path or close().
C25_NoRetry == [][\A e \in Exchanges : (ex[e].pc \in {"sending", "fail", "done"} => ex'[e].pc \notin {"idle", "reg", "send"}) /\ ((\E f \in link' \ link : f.re = e) => (ex[e].pc = "send" /\ ex'[e].pc = "sending"))]_vars

\* a timed out and its late reply was dropped, b's send failed; two sweeps
\* later nothing of either is on the link
C25_Witness == \E a, b \in Exchanges : /\ running /\ Registered(a) /\ Registered(b) /\ handle[a].kind = "Timeout" /\ ~ex[a].threw /\ handle[b].kind = "SendFailed" /\ ex[b].threw /\ ex[a].pc = "done" /\ ex[b].pc = "done" /\ link = {} /\ now >= ex[a].timeout + SweepIntervalMs + TickMs

\* C26: a sweep fails with Timeout and removes exactly the entries whose
\* deadline is strictly earlier than the time the sweep read, which is not
\* later than the current time; every other entry stays as it is with its
\* handle unfulfilled.
C26_SweepStrict == [][SweepExpires => (sweepNow <= now /\ \A t \in DOMAIN pending : IF sweepNow > pending[t].timeout THEN (t \notin DOMAIN pending' /\ handle'[pending[t].promise].kind = "Timeout" /\ now > ex[pending[t].promise].timeout) ELSE (t \in DOMAIN pending' /\ pending'[t] = pending[t] /\ handle'[pending[t].promise].kind = "none"))]_vars

\* the sweep at 100 ms has failed a (deadline 50 ms) and left b, whose
\* deadline is 100 ms
C26_Witness == \E a, b \in Exchanges : /\ running /\ swPc = "top" /\ now = SweepIntervalMs /\ Registered(a) /\ Registered(b) /\ handle[a].kind = "Timeout" /\ ex[a].timeout < now /\ ex[b].timeout = now /\ InTable(b) /\ handle[b].kind = "none" /\ ex[b].pc = "done"

WorkerExits == (rxPc # "exited" /\ rxPc' = "exited") \/ (swPc # "exited" /\ swPc' = "exited")

\* C27: from the moment close() reaches the drain both worker threads have
\* ended (or were never started), so no worker step happens during or after
\* the drain; a worker that reads running == false ends without changing the
\* table or a handle.
C27_DrainAfterWorkersExit == []((clPc = "drain" \/ closes >= 1) => (rxPc \in {"off", "exited"} /\ swPc \in {"off", "exited"})) /\ [][WorkerExits => (~running /\ pending' = pending /\ handle' = handle)]_vars

\* close() stands before the drain of a non-empty table, both workers ended
C27_Witness == clPc = "drain" /\ closes = 0 /\ DOMAIN pending # {} /\ rxPc = "exited" /\ swPc = "exited" /\ rx_thread = "joined" /\ timeout_thread = "joined"

FrameDropped == rxPc = "recv" /\ rxPc' = "top" /\ (spurious' # spurious \/ link' # link)

\* C29: a frame shorter than 2 bytes is dropped when it is received: the
\* step changes no entry and no handle and the loop goes round again; the
\* lookup never sees a frame shorter than 2 bytes.
C29_ShortFrameDiscarded == [][FrameDropped => (pending' = pending /\ handle' = handle /\ running' = running /\ rxMsg' = rxMsg)]_vars /\ [][RxDelivers => Len(rxMsg.bytes) >= 2]_vars

\* a one-byte frame whose byte encodes the tag of pending exchange a was
\* dropped; afterwards a received its own reply
C29_Witness == \E a \in Exchanges : Registered(a) /\ TagOf(a) \in shortSeen /\ OwnReply(a) /\ running /\ \A o \in Exchanges \ {a} : (~Registered(o) \/ TagOf(o) # TagOf(a))

\* C23: a sendAndWaitResponse call that has returned returned true exactly
\* when its future holds a response, in which case the output buffer holds
\* that response; in every other case (InvalidArgument, SendFailed, Timeout,
\* TransportClosing, BrokenPromise) it returned false and the output buffer
\* is what it was before the call.  A caller that waits on its future does
\* not own pending_lock.
C23_WaitResult == \A e \in Exchanges : /\ retval[e].returned => (handle[e].kind # "none" /\ (retval[e].ok <=> handle[e].kind = "Response") /\ (retval[e].ok => retval[e].response = handle[e].value) /\ (~retval[e].ok => retval[e].response = StaleBuffer))
                                       /\ Waiting(e) => pending_lock # Caller(e)

\* a returned true with its own reply in the buffer, b returned false after
\* its timeout with the buffer untouched
C23_Witness == \E a, b \in Exchanges : /\ retval[a].returned /\ retval[a].ok /\ retval[a].response = ReplyFrame(a, ex[a].request) /\ retval[b].returned /\ ~retval[b].ok /\ handle[b].kind = "Timeout" /\ retval[b].response = StaleBuffer

\* the threads that are inside a lock_guard block
InCriticalSection == {Caller(e) : e \in {c \in Exchanges : ex[c].pc \in {"regLocked", "failLocked"}}} \cup (IF rxPc = "deliverLocked" THEN {Owner("rx")} ELSE {}) \cup (IF swPc = "sweepLocked" THEN {Owner("timeout")} ELSE {}) \cup (IF clPc = "drainLocked" THEN {Owner("close")} ELSE {}) \cup (IF cntPc = "locked" THEN {Owner("count")} ELSE {})

LockHeldProperly == /\ Cardinality(InCriticalSection) <= 1
                    /\ InCriticalSection = (IF pending_lock = NoOwner THEN {} ELSE {pending_lock})
                    /\ \A e \in Exchanges : (ex[e].pc \in {"send", "sending"} \/ Waiting(e)) => pending_lock # Caller(e)
                    /\ rxPc = "recv" => pending_lock # Owner("rx")

\* C28: the table and the handles of its entries change only in a step of the
\* thread that owns pending_lock; at most one thread is inside a lock_guard
\* block, and it is the owner of the mutex; a caller in mctp->send or waiting
\* on its future and the receive loop in mctp->receive do not own the mutex.
C28_LockDiscipline == []LockHeldProperly /\ [][(pending' # pending) => (pending_lock # NoOwner /\ pending_lock' = NoOwner)]_vars

\* caller 2 is inside the block of its catch while the receive loop, with the
\* reply to exchange 1, and the timeout thread wait for the mutex
C28_Witness == pending_lock = Caller(2) /\ ex[2].pc = "failLocked" /\ rxPc = "deliver" /\ rxMsg.re = 1 /\ swPc = "sweep" /\ InTable(1) /\ running

\* the steps a loop or close() still has before it ends
RxRank(pc) == CASE pc = "recv" -> 4 [] pc = "deliver" -> 3 [] pc = "deliverLocked" -> 2 [] pc = "top" -> 1 [] OTHER -> 0
SwRank(pc) == CASE pc = "sleep" -> 4 [] pc = "sweep" -> 3 [] pc = "sweepLocked" -> 2 [] pc = "top" -> 1 [] OTHER -> 0
ClRank(pc) == CASE pc = "joinRx" -> 5 [] pc = "joinTimeout" -> 4 [] pc = "closeLink" -> 3 [] pc = "drain" -> 2 [] pc = "drainLocked" -> 1 [] OTHER -> 0

HolderStep == (\E e \in LockCallers : SendAsyncRegisterLocked(e) \/ SendAsyncFailLocked(e)) \/ RxDeliverLocked \/ SweepExpireLocked \/ CloseDrainLocked \/ CountReturn
RxStep == RxCheckRunning \/ RxReceiveNothing \/ (\E f \in link : RxReceiveFrame(f)) \/ RxDeliverLock \/ RxDeliverLocked
SwStep == SweepCheckRunning \/ SweepWake \/ SweepLock \/ SweepExpireLocked
\* the mutex is free or its owner can run to the end of its block
LockAvailable == pending_lock = NoOwner \/ ENABLED HolderStep
\* sleep_for returns: the clock can move on (it stops at MaxTime), or waits
\* for a caller that can store its deadline
ClockRuns == ENABLED LockTick \/ now + TickMs > MaxTime \/ \E e \in LockCallers : ex[e].pc \in {"reg", "regLocked"} /\ LockAvailable

CloseNotStuck == /\ clPc = "joinRx" => (ENABLED CloseJoinRx \/ ENABLED RxStep \/ (rxPc = "deliver" /\ LockAvailable))
                 /\ clPc = "joinTimeout" => (ENABLED CloseJoinTimeout \/ ENABLED SwStep \/ (swPc = "sweep" /\ LockAvailable) \/ (swPc = "sleep" /\ ClockRuns))
                 /\ clPc = "closeLink" => ENABLED CloseLink
                 /\ clPc = "drain" => LockAvailable
                 /\ clPc = "drainLocked" => ENABLED CloseDrainLocked
                 /\ \A e \in LockCallers : ex[e].pc \in {"reg", "fail"} => LockAvailable
                 /\ \A e \in LockCallers : ex[e].pc \in {"regLocked", "failLocked", "send", "sending"} => ENABLED (SendAsyncRegisterLocked(e) \/ SendAsyncFailLocked(e) \/ SendAsyncSend(e) \/ SendAsyncReturn(e))

\* C30: once running is false every step of a worker loop takes it nearer
\* to its end (at most the rest of the current iteration) and every step of
\* close() takes it nearer to its return; and close(), the workers and the
\* callers inside sendAsync never wait for each other in a cycle: whatever
\* close() or a caller waits for (a loop to end, the mutex) can take a step.
C30_CloseTerminates == []CloseNotStuck /\ [][(~running /\ initPc = "done") => ((rxPc' # rxPc => RxRank(rxPc') < RxRank(rxPc)) /\ (swPc' # swPc => SwRank(swPc') < SwRank(swPc)) /\ ((clPc # "idle" /\ clPc' # clPc) => ClRank(clPc') < ClRank(clPc)))]_vars

\* close() has returned with both threads joined while a call of sendAsync
\* that began before close() is between its registration and its return
C30_Witness == \E e \in LockCallers : /\ closes = 1 /\ clPc = "idle" /\ rx_thread = "joined" /\ timeout_thread = "joined" /\ rxPc = "exited" /\ swPc = "exited" /\ ex[e].pc = "sending" /\ handle[e].kind = "TransportClosing"

====
